---------------------------- MODULE Spec2Model ----------------------------
(*************************************************************************)
(* Finite-field Diffie-Hellman of wolfcrypt/src/dh.c: initialisation of  *)
(* the key object (wc_InitDhKey), loading of the domain parameters       *)
(* (wc_DhSetKey), release (wc_FreeDhKey), generation of a key pair       *)
(* (GeneratePrivate, GeneratePublic, wc_DhGenerateKeyPair), validation   *)
(* of a peer's public value (wc_DhCheckPubKey) and agreement             *)
(* (wc_DhAgree).                                                         *)
(*                                                                       *)
(* The big-integer engine and the random source are not part of dh.c.    *)
(* They are modelled from the specification's description of the        *)
(* collaborators: every fallible engine call may fail, which an          *)
(* operation receives as its `fault' input (the call site that fails,    *)
(* if control reaches it).  After a first failure dh.c makes no further  *)
(* fallible call, so one fault per operation covers every outcome.  A    *)
(* failing engine call leaves the handle it was given as it was.         *)
(*                                                                       *)
(* An mp_int is carried as the integer it holds.  The private exponent   *)
(* alone may be longer than the integers TLC computes with (21 bytes     *)
(* under WOLFSSL_DH_CONST); it is carried as its base-256 digits         *)
(* and mp_exptmod consumes the digits.                                   *)
(*************************************************************************)
EXTENDS Integers, Sequences, FiniteSets, TLC

VARIABLES
    dhConst,    \* TRUE when the build defines WOLFSSL_DH_CONST (Policy B)
    key,        \* the DhKey: the mp_int handles p and g
    priv,       \* caller's private-key buffer
    privSz,     \* caller's word32 privSz
    pub,        \* caller's public-key buffer
    pubSz,      \* caller's word32 pubSz
    agree,      \* caller's shared-secret buffer
    agreeSz,    \* caller's word32 agreeSz
    last,       \* record of the most recent call: inputs, return value,
                \* engine calls made, output locations written
    calls,      \* number of calls made with the loaded parameters
    party       \* the two parties of an exchange (specification SpecDH)

vars == <<dhConst, key, priv, privSz, pub, pubSz, agree, agreeSz, last, calls,
          party>>

-----------------------------------------------------------------------------
(* Bounds of the model *)

\* largest number of zero bytes a caller puts in front of a value
MaxPad == 2
\* largest modulus byte length given to the exponent sizer
MaxModLen == 1153
\* largest candidate public value tried beyond the modulus
MaxOver == 2
\* largest number of calls a caller makes with the parameters it loaded
MaxCalls == 1

\* moduli and generators the callers load (prime and composite, 0 and 1,
\* one- and two-byte values), and those they also pass behind zero bytes
PVals == {0, 1, 3, 5, 23, 257}
GVals == {2, 5}
PaddedPVals == {23}
PaddedGVals == {5}
\* the parameters of the calls of wc_DhSetKey in which an engine call fails
FaultPVals == {23, 257}
FaultGVals == {5}
\* bytes the random source returns: first byte and fill byte of a block
RngFirst == {0, 32, 243}
RngFill == {0, 255}
\* largest number of zero bytes in front of a candidate public value
MaxPubPad == 1
\* private values of the two parties of an exchange
PrivVals == {1, 6, 15, 22, 44}
\* private values a caller passes to wc_DhAgree
AgreePrivVals == {6}
\* candidate public values tried whatever the modulus, and those tried
\* behind zero bytes
PubVals == {8, 19}
PaddedPubVals == {0, 2}
\* candidate public values of the calls in which an engine call fails
FaultPubVals == {1, 2, 8}

-----------------------------------------------------------------------------
(* Return values *)

OK == "0"
BAD_FUNC_ARG == "BAD_FUNC_ARG"
MEMORY_E == "MEMORY_E"
MP_INIT_E == "MP_INIT_E"
MP_READ_E == "MP_READ_E"
MP_EXPTMOD_E == "MP_EXPTMOD_E"
MP_TO_E == "MP_TO_E"
MP_SUB_E == "MP_SUB_E"
MP_CMP_E == "MP_CMP_E"
DH_CHECK_PUB_E == "DH_CHECK_PUB_E"
ASN_DH_KEY_E == "ASN_DH_KEY_E"
RNG_FAILURE_E == "RNG_FAILURE_E"

\* a null pointer
NULL == "NULL"

\* a caller's buffer argument: a pointer (NULL or not) and the bytes at it;
\* the size passed with it is the number of bytes
Buf(b) == [ptr |-> "buf", bytes |-> b]
NullBuf == [ptr |-> NULL, bytes |-> << >>]

\* results of mp_cmp and mp_cmp_d
MP_LT == "MP_LT"
MP_EQ == "MP_EQ"
MP_GT == "MP_GT"

-----------------------------------------------------------------------------
(* The arithmetic engine and the random source *)

\* mp_read_unsigned_bin: the unsigned big-endian value of the bytes
RECURSIVE mp_read_unsigned_bin(_)
mp_read_unsigned_bin(b) ==
    IF Len(b) = 0 THEN 0
    ELSE 256 * mp_read_unsigned_bin(SubSeq(b, 1, Len(b) - 1)) + b[Len(b)]

\* mp_read_unsigned_bin of an exponent: its base-256 digits, most
\* significant first, without leading zero digits
RECURSIVE mp_read_digits(_)
mp_read_digits(b) ==
    IF Len(b) = 0 THEN << >>
    ELSE IF b[1] = 0 THEN mp_read_digits(Tail(b))
    ELSE b

\* mp_to_unsigned_bin: the minimal big-endian bytes of a value >= 0
RECURSIVE mp_to_unsigned_bin(_)
mp_to_unsigned_bin(v) ==
    IF v = 0 THEN << >>
    ELSE Append(mp_to_unsigned_bin(v \div 256), v % 256)

\* mp_unsigned_bin_size: the number of bytes mp_to_unsigned_bin writes
mp_unsigned_bin_size(v) == Len(mp_to_unsigned_bin(v))

\* mp_cmp, and mp_cmp_d with a small second operand
mp_cmp(a, b) == IF a < b THEN MP_LT ELSE IF a > b THEN MP_GT ELSE MP_EQ

\* b*b mod m
SqMod(b, m) == (b * b) % m

\* b^e mod m for a digit e
RECURSIVE PowMod(_, _, _)
PowMod(b, e, m) ==
    IF e = 0 THEN 1 % m
    ELSE IF e % 2 = 1 THEN (SqMod(PowMod(b, e \div 2, m), m) * (b % m)) % m
    ELSE SqMod(PowMod(b, e \div 2, m), m)

\* G^X mod P over the digits of X, most significant first:
\* G^(256 * X' + d) = (G^X')^256 * G^d
RECURSIVE ExptDigits(_, _, _)
ExptDigits(G, X, P) ==
    IF Len(X) = 0 THEN 1 % P
    ELSE LET r == ExptDigits(G, SubSeq(X, 1, Len(X) - 1), P)
         IN IF r < P
            THEN (PowMod(r, 256, P) * PowMod(G, X[Len(X)], P)) % P
            ELSE 0

\* mp_exptmod refuses a modulus that is not positive
mp_exptmod_defined(P) == P > 0

\* mp_exptmod(G, X, P, Y): Y = G^X mod P
mp_exptmod(G, X, P) == ExptDigits(G, X, P)

\* wc_RNG_GenerateBlock: sz bytes, the first and the others as drawn
RngBlock(first, fill, sz) == [i \in 1..sz |-> IF i = 1 THEN first ELSE fill]

\* byte | 0x0C
Or0C(b) ==
    b + (IF (b \div 4) % 2 = 0 THEN 4 ELSE 0)
      + (IF (b \div 8) % 2 = 0 THEN 8 ELSE 0)

\* byte & 0x0C
And0C(b) == 4 * ((b \div 4) % 2) + 8 * ((b \div 8) % 2)

\* k zero bytes
Zeros(k) == [i \in 1..k |-> 0]

\* a value as a caller writes it: minimal bytes behind k zero bytes
Padded(v, k) == Zeros(k) \o mp_to_unsigned_bin(v)

-----------------------------------------------------------------------------
(* ExponentSizer *)

\* The values of n at which (word32)(2.4 * pow(n, 1/3) * pow(log(n), 2/3) - 5)
\* grows by one, evaluated in double precision as dh.c does; entry k is the
\* least n >= 5 whose work factor is at least k.  Covers n <= 12000.
WorkFactorSteps == <<
    6,7,9,10,12,14,17,19,22,25,28,31,
    34,38,42,46,51,55,60,65,71,76,82,89,
    95,102,109,116,123,131,139,148,156,165,174,184,
    194,204,215,225,236,248,260,272,284,297,310,323,
    337,351,365,380,395,411,427,443,459,476,494,511,
    529,548,567,586,605,625,646,666,687,709,731,753,
    776,799,823,847,871,896,921,947,973,999,1026,1053,
    1081,1109,1138,1167,1197,1227,1257,1288,1319,1351,1384,1416,
    1449,1483,1517,1552,1587,1623,1659,1695,1732,1770,1808,1846,
    1885,1924,1964,2005,2046,2087,2129,2172,2214,2258,2302,2346,
    2391,2437,2483,2530,2577,2624,2673,2721,2771,2820,2871,2922,
    2973,3025,3078,3131,3184,3238,3293,3348,3404,3461,3518,3575,
    3633,3692,3751,3811,3872,3933,3994,4056,4119,4182,4246,4311,
    4376,4442,4508,4575,4643,4711,4779,4849,4919,4989,5060,5132,
    5205,5278,5351,5426,5501,5576,5652,5729,5807,5885,5963,6043,
    6123,6203,6285,6367,6449,6532,6616,6701,6786,6872,6958,7046,
    7133,7222,7311,7401,7492,7583,7675,7767,7861,7955,8049,8144,
    8240,8337,8435,8533,8631,8731,8831,8932,9033,9136,9239,9342,
    9447,9552,9658,9764,9872,9980,10088,10198,10308,10419,10530,10643,
    10756,10870,10984,11099,11215,11332,11450,11568,11687,11807,11927 >>

DiscreteLogWorkFactor(n) ==
    IF n < 5 THEN 0
    ELSE Cardinality({k \in 1..Len(WorkFactorSteps) : WorkFactorSteps[k] <= n})

\* a rounding that goes down to the multiple of 128 below, not up
RoundedDown(x, const) ==
    IF const /\ x % 128 # 0
    THEN x - (x % 128)
    ELSE x

\* WOLFSSL_DH_ROUND(x): empty without WOLFSSL_DH_CONST, else x rounded up
\* to a multiple of 128 (x &= 0xffffff80; x += 128).  x is a word32; no
\* byte length within MaxModLen comes near 2^32, so nothing wraps.
WOLFSSL_DH_ROUND(x, const) ==
    IF const /\ x % 128 # 0
    THEN (x - (x % 128)) + 128
    ELSE x

\* the size of the private exponent the switch of GeneratePrivate assigns
Sized(n) == [ret |-> OK, sz |-> n]

\* the switch of GeneratePrivate on the (rounded) byte length of p
SizeSwitch(sz, const) ==
    CASE sz = 128 -> Sized(21)
      [] sz = 256 -> Sized(29)
      [] sz = 384 -> Sized(34)
      [] sz = 512 -> Sized(39)
      [] sz = 640 -> Sized(42)
      [] sz = 768 -> Sized(46)
      [] sz = 896 -> Sized(49)
      [] sz = 1024 -> Sized(52)
      [] OTHER ->
            IF const THEN [ret |-> BAD_FUNC_ARG, sz |-> sz]
            ELSE LET w == (2 * DiscreteLogWorkFactor(sz * 8)) \div 8 + 1
                 IN Sized(IF sz < w THEN sz ELSE w)

ExponentSizer(pSz, const) == SizeSwitch(WOLFSSL_DH_ROUND(pSz, const), const)


-----------------------------------------------------------------------------
(* The operations of dh.c.  Each returns its return value, the engine      *)
(* calls it made in order (log) and what it wrote to the caller's outputs. *)

\* one engine call: its name, the handle or buffer it acts on, its operands
E(call, h, arg) == [call |-> call, h |-> h, arg |-> arg]

\* an mp_int that is not initialised (or cleared)
Dead == [live |-> FALSE, val |-> 0]
Live(v) == [live |-> TRUE, val |-> v]

\* One guarded step of a function's chain
\*     if (ret == 0 && <engine call> != MP_OKAY) ret = <err>;
\* on the chain's state st = [ret, log]: the call is made, and logged, only
\* while ret is 0
Step(st, fails, err, entry) ==
    IF st.ret # OK THEN st
    ELSE [ret |-> IF fails THEN err ELSE OK, log |-> Append(st.log, entry)]

\* an upper test against p - 1 where the code tests against p - 2
PubAboveModulusLessOne(x, y) == mp_cmp(x, y + 1) = MP_GT

\* the two range tests of wc_DhCheckPubKey
PubTooSmall(x) == mp_cmp(x, 2) = MP_LT
PubTooLarge(x, y) == mp_cmp(x, y) = MP_GT

\* the scratch handles wc_DhCheckPubKey clears before it returns
CheckPubKeyClears ==
    << E("mp_clear", "chk_y", << >>), E("mp_clear", "chk_x", << >>) >>

\* the body of wc_DhCheckPubKey once x and y are initialised; x is what
\* mp_read_unsigned_bin makes of pub, p the modulus
CheckPubKeyChain(x, p, bytes, fault) ==
    Step(Step(Step(Step(Step(
        [ret |-> OK,
         log |-> << E("mp_init", "chk_x", << >>),
                    E("mp_init", "chk_y", << >>) >>],
        fault = "chk_read", MP_READ_E,
            E("mp_read_unsigned_bin", "chk_x", bytes)),
        \* pub should not be 0 or 1
        PubTooSmall(x), MP_CMP_E, E("mp_cmp_d", "chk_x", <<x, 2>>)),
        \* pub shouldn't be greater than or equal to p - 1
        fault = "chk_copy", MP_INIT_E, E("mp_copy", "chk_y", <<p>>)),
        fault = "chk_sub", MP_SUB_E, E("mp_sub_d", "chk_y", <<p, 2>>)),
        PubTooLarge(x, p - 2), MP_CMP_E, E("mp_cmp", "chk_x", <<x, p - 2>>))

\* wc_DhCheckPubKey(key, pub, pubSz)
wc_DhCheckPubKey(k, keyArg, pb, fault) ==
    IF keyArg = NULL \/ pb.ptr = NULL
    THEN [ret |-> BAD_FUNC_ARG, log |-> << >>]
    ELSE IF fault = "chk_init"
    THEN [ret |-> MP_INIT_E, log |-> << >>]
    ELSE LET c == CheckPubKeyChain(mp_read_unsigned_bin(pb.bytes), k.p.val,
                                   pb.bytes, fault)
         IN [ret |-> c.ret, log |-> c.log \o CheckPubKeyClears]

\* GeneratePrivate(key, rng, priv, privSz); pSz is mp_unsigned_bin_size(&key->p),
\* old the byte at priv[0] before the call
GeneratePrivate(pSz, const, rngRet, first, fill, old) ==
    LET es == ExponentSizer(pSz, const)
    IN IF es.ret # OK
       THEN [ret |-> BAD_FUNC_ARG, log |-> << >>, wrote |-> {},
             priv |-> << >>, privSz |-> 0]
       ELSE IF rngRet # OK
       THEN [ret |-> rngRet,
             log |-> << E("wc_RNG_GenerateBlock", "priv", <<es.sz>>) >>,
             wrote |-> {}, priv |-> << >>, privSz |-> 0]
       ELSE [ret |-> OK,
             log |-> << E("wc_RNG_GenerateBlock", "priv", <<es.sz>>) >>,
             wrote |-> {"priv", "privSz"},
             \* priv[0] |= 0x0C
             priv |-> IF es.sz = 0 THEN << Or0C(old) >>
                      ELSE [RngBlock(first, fill, es.sz)
                                EXCEPT ![1] = Or0C(first)],
             privSz |-> es.sz]

\* the scratch handles GeneratePublic clears before it returns
GeneratePublicClears == << E("mp_clear", "y", << >>), E("mp_clear", "x", << >>) >>

\* the body of GeneratePublic once x and y are initialised; y is g^x mod p
\* where mp_exptmod computes it
GeneratePublicChain(g, p, pv, y, fault) ==
    Step(Step(Step(Step(
        [ret |-> OK,
         log |-> << E("mp_init", "x", << >>), E("mp_init", "y", << >>) >>],
        fault = "gp_read", MP_READ_E, E("mp_read_unsigned_bin", "x", pv)),
        fault = "gp_exptmod" \/ ~mp_exptmod_defined(p), MP_EXPTMOD_E,
            E("mp_exptmod", "y", <<g, p>>)),
        fault = "gp_to_bin", MP_TO_E, E("mp_to_unsigned_bin", "y", <<y>>)),
        FALSE, OK, E("mp_unsigned_bin_size", "y", <<y>>))

\* GeneratePublic(key, priv, privSz, pub, pubSz)
GeneratePublic(k, pv, fault) ==
    IF fault = "gp_init"
    THEN [ret |-> MP_INIT_E, log |-> << >>, wrote |-> {},
          pub |-> << >>, pubSz |-> 0]
    ELSE
    LET y == IF mp_exptmod_defined(k.p.val)
             THEN mp_exptmod(k.g.val, mp_read_digits(pv), k.p.val) ELSE 0
        c == GeneratePublicChain(k.g.val, k.p.val, pv, y, fault)
    IN IF c.ret = OK
       THEN [ret |-> OK, log |-> c.log \o GeneratePublicClears,
             wrote |-> {"pub", "pubSz"},
             pub |-> mp_to_unsigned_bin(y),
             pubSz |-> mp_unsigned_bin_size(y)]
       ELSE [ret |-> c.ret, log |-> c.log \o GeneratePublicClears,
             wrote |-> {}, pub |-> << >>, pubSz |-> 0]

\* wc_DhGenerateKeyPair(key, rng, priv, privSz, pub, pubSz)
wc_DhGenerateKeyPair(k, const, rngRet, first, fill, old, fault) ==
    LET a == GeneratePrivate(mp_unsigned_bin_size(k.p.val), const,
                             rngRet, first, fill, old)
    IN IF a.ret # OK
       THEN [ret |-> a.ret, log |-> a.log, wrote |-> a.wrote,
             priv |-> a.priv, privSz |-> a.privSz, pub |-> << >>, pubSz |-> 0]
       ELSE LET b == GeneratePublic(k, SubSeq(a.priv, 1, a.privSz), fault)
            IN [ret |-> b.ret, log |-> a.log \o b.log,
                wrote |-> a.wrote \cup b.wrote,
                priv |-> a.priv, privSz |-> a.privSz,
                pub |-> b.pub, pubSz |-> b.pubSz]

\* a wc_DhAgree that goes on after a range error of the check
OnlyArgumentErrors(ret) == ret = BAD_FUNC_ARG

\* the test wc_DhAgree makes of wc_DhCheckPubKey's return value
AgreeCheckFailed(ret) == ret # OK

\* the scratch handles wc_DhAgree clears before it returns
AgreeClears ==
    << E("mp_clear", "z", << >>), E("mp_clear", "y", << >>),
       E("mp_clear", "x", << >>) >>

\* the body of wc_DhAgree once x, y and z are initialised; y is what
\* mp_read_unsigned_bin makes of otherPub, z is y^x mod p where mp_exptmod
\* computes it
AgreeChain(y, p, pv, bytes, z, fault) ==
    Step(Step(Step(Step(Step(
        [ret |-> OK,
         log |-> << E("mp_init", "x", << >>), E("mp_init", "y", << >>),
                    E("mp_init", "z", << >>) >>],
        fault = "ag_read_x", MP_READ_E, E("mp_read_unsigned_bin", "x", pv)),
        fault = "ag_read_y", MP_READ_E, E("mp_read_unsigned_bin", "y", bytes)),
        fault = "ag_exptmod" \/ ~mp_exptmod_defined(p), MP_EXPTMOD_E,
            E("mp_exptmod", "z", <<y, p>>)),
        fault = "ag_to_bin", MP_TO_E, E("mp_to_unsigned_bin", "z", <<z>>)),
        FALSE, OK, E("mp_unsigned_bin_size", "z", <<z>>))

\* wc_DhAgree after wc_DhCheckPubKey has returned 0
AgreeChecked(k, pv, pb, fault) ==
    IF fault = "ag_init"
    THEN [ret |-> MP_INIT_E, log |-> << >>, wrote |-> {},
          agree |-> << >>, agreeSz |-> 0]
    ELSE
    LET y == mp_read_unsigned_bin(pb.bytes)
        z == IF mp_exptmod_defined(k.p.val)
             THEN mp_exptmod(y, mp_read_digits(pv), k.p.val) ELSE 0
        c == AgreeChain(y, k.p.val, pv, pb.bytes, z, fault)
    IN IF c.ret = OK
       THEN [ret |-> OK, log |-> c.log \o AgreeClears,
             wrote |-> {"agree", "agreeSz"},
             agree |-> mp_to_unsigned_bin(z),
             agreeSz |-> mp_unsigned_bin_size(z)]
       ELSE [ret |-> c.ret, log |-> c.log \o AgreeClears,
             wrote |-> {}, agree |-> << >>, agreeSz |-> 0]

\* wc_DhAgree(key, agree, agreeSz, priv, privSz, otherPub, pubSz); the log
\* holds wc_DhCheckPubKey's engine calls, its return, then wc_DhAgree's own
wc_DhAgree(k, pv, pb, fault) ==
    LET c == wc_DhCheckPubKey(k, "key", pb, fault)
        lc == Append(c.log, E("wc_DhCheckPubKey", "otherPub", pb.bytes))
    IN IF AgreeCheckFailed(c.ret)
       THEN [ret |-> DH_CHECK_PUB_E, chk |-> c.ret, log |-> lc,
             wrote |-> {}, agree |-> << >>, agreeSz |-> 0]
       ELSE LET r == AgreeChecked(k, pv, pb, fault)
            IN [ret |-> r.ret, chk |-> c.ret, log |-> lc \o r.log,
                wrote |-> r.wrote, agree |-> r.agree, agreeSz |-> r.agreeSz]

\* a wc_DhSetKey that drops up to two leading zero bytes
SkipLeadingZeros(b) ==
    IF b[1] # 0 THEN b
    ELSE IF Len(b) > 1 /\ b[2] = 0 THEN Tail(Tail(b)) ELSE Tail(b)

\* "may have leading 0": if (p[0] == 0) { pSz--; p++; }
SkipLeadingZero(b) == IF b[1] = 0 THEN Tail(b) ELSE b

\* wc_DhSetKey(key, p, pSz, g, gSz)
wc_DhSetKey(k, keyArg, pb, gb, fault) ==
    IF keyArg = NULL \/ pb.ptr = NULL \/ gb.ptr = NULL
       \/ Len(pb.bytes) = 0 \/ Len(gb.bytes) = 0
    THEN [ret |-> BAD_FUNC_ARG, log |-> << >>, key |-> k]
    ELSE
    LET p1 == SkipLeadingZero(pb.bytes)
        g1 == SkipLeadingZero(gb.bytes)
        ip == << E("mp_init", "p", << >>) >>
        rp == Append(ip, E("mp_read_unsigned_bin", "p", p1))
        ig == Append(rp, E("mp_init", "g", << >>))
        rg == Append(ig, E("mp_read_unsigned_bin", "g", g1))
    IN IF fault = "set_p_init"
       THEN [ret |-> MP_INIT_E, log |-> << >>, key |-> k]
       ELSE IF fault = "set_p_read"
       THEN [ret |-> ASN_DH_KEY_E,
             log |-> Append(rp, E("mp_clear", "p", << >>)),
             key |-> [k EXCEPT !.p = Dead]]
       ELSE IF fault = "set_g_init"
       THEN [ret |-> MP_INIT_E,
             log |-> Append(rp, E("mp_clear", "p", << >>)),
             key |-> [k EXCEPT !.p = Dead]]
       ELSE IF fault = "set_g_read"
       THEN [ret |-> ASN_DH_KEY_E,
             log |-> rg \o << E("mp_clear", "g", << >>),
                              E("mp_clear", "p", << >>) >>,
             key |-> [k EXCEPT !.p = Dead, !.g = Dead]]
       ELSE [ret |-> OK, log |-> rg,
             key |-> [k EXCEPT !.p = Live(mp_read_unsigned_bin(p1)),
                               !.g = Live(mp_read_unsigned_bin(g1))]]

\* wc_InitDhKey(key): mp_init_multi(&key->p, &key->g, ...); an initialised
\* mp_int holds 0
wc_InitDhKey(k, keyArg, fault) ==
    IF keyArg = NULL
    THEN [ret |-> BAD_FUNC_ARG, log |-> << >>, key |-> k]
    ELSE IF fault = "init_multi"
    THEN [ret |-> MEMORY_E, log |-> << >>, key |-> k]
    ELSE [ret |-> OK,
          log |-> << E("mp_init", "p", << >>), E("mp_init", "g", << >>) >>,
          key |-> [k EXCEPT !.p = Live(0), !.g = Live(0)]]

\* wc_FreeDhKey(key), built without USE_FAST_MATH
wc_FreeDhKey(k, keyArg) ==
    IF keyArg # NULL
    THEN [log |-> << E("mp_clear", "p", << >>), E("mp_clear", "g", << >>) >>,
          key |-> [k EXCEPT !.p = Dead, !.g = Dead]]
    ELSE [log |-> << >>, key |-> k]

-----------------------------------------------------------------------------
(* State and actions *)

\* the record kept of a call
\* (key0 is the key object as it was when the call was made)
Call(op, ret, keyArg, a1, a2, chk, log, wrote, pSz) ==
    [op |-> op, ret |-> ret, keyArg |-> keyArg, a1 |-> a1, a2 |-> a2,
     chk |-> chk, log |-> log, wrote |-> wrote, pSz |-> pSz, key0 |-> key]

\* the key object before wc_InitDhKey: no handle is initialised
UnsetKey == [p |-> Dead, g |-> Dead]

NoCall ==
    [op |-> "none", ret |-> OK, keyArg |-> "key", a1 |-> NullBuf,
     a2 |-> NullBuf, chk |-> "none", log |-> << >>, wrote |-> {}, pSz |-> 0,
     key0 |-> UnsetKey]

\* a party of an exchange before it has done anything
NoParty == [priv |-> << >>, pubRet |-> "none", pub |-> << >>,
            agreeRet |-> "none", agree |-> << >>]

\* the key object: Unset while neither handle is initialised, Ready when
\* both are (after wc_InitDhKey they hold 0, after wc_DhSetKey p and g)
Unset == ~key.p.live /\ ~key.g.live
Ready == key.p.live /\ key.g.live

\* the caller has made no call yet, or only wc_InitDhKey
Starting == last.op \in {"none", "wc_InitDhKey"}

\* Every call is handed output locations of its own, empty before the call:
\* what a location holds after a call that wrote the locations `wrote'
Written(wrote, name, new, fresh) == IF name \in wrote THEN new ELSE fresh

\* a value as the bytes a caller passes for it: 0 is one zero byte
Bytes(v) == IF v = 0 THEN <<0>> ELSE mp_to_unsigned_bin(v)

\* the buffers a caller passes for p or g: absent, empty, a value, or a
\* value behind up to MaxPad zero bytes
ParamBufs(vals, padded) ==
    {NullBuf, Buf(<< >>)}
    \cup {Buf(Bytes(v)) : v \in vals}
    \cup {Buf(Padded(v, k)) : v \in padded, k \in 1..MaxPad}

\* candidate public values around the two ends of [2, p-2], and beyond p
CandVals(p) == {v \in 0..(p + MaxOver) : v <= 3 \/ v >= p - 3}

\* the buffers of the calls in which an engine call fails
FaultBufs(vals) == {Buf(mp_to_unsigned_bin(v)) : v \in vals}

\* the buffers a caller passes as a peer's public value
CandBufs ==
    {NullBuf}
    \cup {Buf(mp_to_unsigned_bin(v)) : v \in CandVals(key.p.val) \cup PubVals}
    \cup {Buf(Padded(v, k)) : v \in PaddedPubVals, k \in 1..MaxPubPad}

SetFaults == {"set_p_init", "set_p_read", "set_g_init", "set_g_read"}
GenFaults == {"none", "gp_init", "gp_read", "gp_exptmod", "gp_to_bin"}
CheckFaults == {"chk_init", "chk_read", "chk_copy", "chk_sub"}
AgreeFaults == CheckFaults \cup
    {"ag_init", "ag_read_x", "ag_read_y", "ag_exptmod", "ag_to_bin"}

Init ==
    /\ dhConst \in BOOLEAN
    /\ key = UnsetKey
    /\ priv = << >> /\ privSz = 0
    /\ pub = << >> /\ pubSz = 0
    /\ agree = << >> /\ agreeSz = 0
    /\ last = NoCall
    /\ calls = 0
    /\ party = [i \in 1..2 |-> NoParty]

\* A caller's first calls, wc_InitDhKey and the wc_DhSetKey after it, are
\* free; every later call is one of at most MaxCalls
Budget == Starting \/ calls < MaxCalls
Spent == IF Starting THEN calls ELSE calls + 1

InitKey(keyArg, fault) ==
    /\ last.op = "none" \/ (~Starting /\ calls < MaxCalls)
    /\ LET r == wc_InitDhKey(key, keyArg, fault)
       IN /\ key' = r.key
          /\ last' = Call("wc_InitDhKey", r.ret, keyArg, NullBuf, NullBuf,
                          "none", r.log, {}, 0)
    /\ calls' = Spent
    /\ UNCHANGED <<dhConst, priv, privSz, pub, pubSz, agree, agreeSz, party>>

\* wc_DhSetKey on the key object as it is: not initialised, initialised,
\* half cleared by a failed wc_DhSetKey, or loaded
SetKey(keyArg, pb, gb, fault) ==
    /\ Budget
    /\ LET r == wc_DhSetKey(key, keyArg, pb, gb, fault)
       IN /\ key' = r.key
          /\ last' = Call("wc_DhSetKey", r.ret, keyArg, pb, gb, "none",
                          r.log, {}, 0)
    /\ calls' = Spent
    /\ UNCHANGED <<dhConst, priv, privSz, pub, pubSz, agree, agreeSz, party>>

FreeKey ==
    /\ key.p.live \/ key.g.live
    /\ LET r == wc_FreeDhKey(key, "key")
       IN /\ key' = r.key
          /\ last' = Call("wc_FreeDhKey", OK, "key", NullBuf, NullBuf, "none",
                          r.log, {}, 0)
    /\ UNCHANGED <<dhConst, priv, privSz, pub, pubSz, agree, agreeSz, calls,
                   party>>

\* `first' also stands for the byte a fresh priv[0] happens to hold
GenerateKeyPair(rngRet, first, fill, fault) ==
    /\ Ready
    /\ calls < MaxCalls
    /\ LET r == wc_DhGenerateKeyPair(key, dhConst, rngRet, first, fill, first,
                                     fault)
       IN /\ priv' = Written(r.wrote, "priv", r.priv, << >>)
          /\ privSz' = Written(r.wrote, "privSz", r.privSz, 0)
          /\ pub' = Written(r.wrote, "pub", r.pub, << >>)
          /\ pubSz' = Written(r.wrote, "pubSz", r.pubSz, 0)
          /\ last' = Call("wc_DhGenerateKeyPair", r.ret, "key",
                          Buf(<<first, fill>>), NullBuf, "none", r.log,
                          r.wrote, mp_unsigned_bin_size(key.p.val))
    /\ agree' = << >> /\ agreeSz' = 0
    /\ calls' = calls + 1
    /\ UNCHANGED <<dhConst, key, party>>

CheckPubKey(keyArg, pb, fault) ==
    /\ Ready
    /\ calls < MaxCalls
    /\ LET r == wc_DhCheckPubKey(key, keyArg, pb, fault)
       IN last' = Call("wc_DhCheckPubKey", r.ret, keyArg, NullBuf, pb, "none",
                       r.log, {}, 0)
    /\ priv' = << >> /\ privSz' = 0
    /\ pub' = << >> /\ pubSz' = 0
    /\ agree' = << >> /\ agreeSz' = 0
    /\ calls' = calls + 1
    /\ UNCHANGED <<dhConst, key, party>>

Agree(pv, pb, fault) ==
    /\ Ready
    /\ calls < MaxCalls
    /\ LET r == wc_DhAgree(key, pv, pb, fault)
       IN /\ agree' = Written(r.wrote, "agree", r.agree, << >>)
          /\ agreeSz' = Written(r.wrote, "agreeSz", r.agreeSz, 0)
          /\ last' = Call("wc_DhAgree", r.ret, "key", Buf(pv), pb, r.chk,
                          r.log, r.wrote, 0)
    /\ priv' = << >> /\ privSz' = 0
    /\ pub' = << >> /\ pubSz' = 0
    /\ calls' = calls + 1
    /\ UNCHANGED <<dhConst, key, party>>

Next ==
    \/ \E keyArg \in {NULL, "key"}, f \in {"none", "init_multi"} :
            InitKey(keyArg, f)
    \/ \E pb \in ParamBufs(PVals, PaddedPVals),
          gb \in ParamBufs(GVals, PaddedGVals) :
            SetKey("key", pb, gb, "none")
    \/ \E pb \in FaultBufs(FaultPVals), gb \in FaultBufs(FaultGVals),
          f \in SetFaults :
            SetKey("key", pb, gb, f)
    \/ \E pb \in {NullBuf} \cup FaultBufs(FaultPVals) :
            SetKey(NULL, pb, Buf(<<5>>), "none")
    \/ FreeKey
    \/ \E first \in RngFirst, fill \in RngFill, f \in GenFaults :
            GenerateKeyPair(OK, first, fill, f)
    \/ \E first \in RngFirst, fill \in RngFill :
            GenerateKeyPair(RNG_FAILURE_E, first, fill, "none")
    \/ \E pb \in CandBufs : CheckPubKey("key", pb, "none")
    \/ \E pb \in FaultBufs(FaultPubVals), f \in CheckFaults :
            CheckPubKey("key", pb, f)
    \/ \E pb \in {NullBuf, Buf(<<2>>)} : CheckPubKey(NULL, pb, "none")
    \/ \E a \in AgreePrivVals, pb \in CandBufs :
            Agree(mp_to_unsigned_bin(a), pb, "none")
    \/ \E a \in AgreePrivVals, pb \in FaultBufs(FaultPubVals),
          f \in AgreeFaults :
            Agree(mp_to_unsigned_bin(a), pb, f)

Spec == Init /\ [][Next]_vars

-----------------------------------------------------------------------------
(* The exponent sizer on its own: GeneratePrivate sees the modulus only   *)
(* through mp_unsigned_bin_size(&key->p), here the input pSz.             *)

SizePrivate(pSz, rngRet, first, fill) ==
    /\ last.op = "none"
    /\ LET r == GeneratePrivate(pSz, dhConst, rngRet, first, fill, first)
       IN /\ priv' = Written(r.wrote, "priv", r.priv, << >>)
          /\ privSz' = Written(r.wrote, "privSz", r.privSz, 0)
          /\ last' = Call("GeneratePrivate", r.ret, "key",
                          Buf(<<first, fill>>), NullBuf, "none", r.log,
                          r.wrote, pSz)
    /\ UNCHANGED <<dhConst, key, pub, pubSz, agree, agreeSz, calls, party>>

NextSize ==
    \E pSz \in 0..MaxModLen, rr \in {OK, RNG_FAILURE_E}, first \in RngFirst,
       fill \in RngFill :
        SizePrivate(pSz, rr, first, fill)

SpecSize == Init /\ [][NextSize]_vars

-----------------------------------------------------------------------------
(* An exchange between two parties over one set of domain parameters:     *)
(* each derives its public value from a private value (GeneratePublic),   *)
(* then agrees with the other's public value (wc_DhAgree).  The engine    *)
(* does not fail here.                                                    *)

Other(i) == 3 - i

\* the key after wc_DhSetKey has loaded p and g
LoadedKey(p, g) ==
    wc_DhSetKey(UnsetKey, "key", Buf(mp_to_unsigned_bin(p)),
                Buf(mp_to_unsigned_bin(g)), "none").key

InitDH ==
    /\ dhConst = FALSE
    /\ \E p \in PVals \ {0}, g \in GVals : key = LoadedKey(p, g)
    /\ priv = << >> /\ privSz = 0
    /\ pub = << >> /\ pubSz = 0
    /\ agree = << >> /\ agreeSz = 0
    /\ last = NoCall
    /\ calls = 0
    /\ \E a \in PrivVals, b \in PrivVals :
          party = [i \in 1..2 |->
                     [NoParty EXCEPT
                        !.priv = mp_to_unsigned_bin(IF i = 1 THEN a ELSE b)]]

DhGeneratePublic(i) ==
    /\ party[i].pubRet = "none"
    /\ LET r == GeneratePublic(key, party[i].priv, "none")
       IN party' = [party EXCEPT ![i].pubRet = r.ret, ![i].pub = r.pub]
    /\ UNCHANGED <<dhConst, key, priv, privSz, pub, pubSz, agree, agreeSz,
                   last, calls>>

DhAgree(i) ==
    /\ party[i].agreeRet = "none"
    /\ party[i].pubRet = OK
    /\ party[Other(i)].pubRet = OK
    /\ LET r == wc_DhAgree(key, party[i].priv, Buf(party[Other(i)].pub), "none")
       IN party' = [party EXCEPT ![i].agreeRet = r.ret, ![i].agree = r.agree]
    /\ UNCHANGED <<dhConst, key, priv, privSz, pub, pubSz, agree, agreeSz,
                   last, calls>>

NextDH ==
    \/ \E i \in 1..2 : DhGeneratePublic(i)
    \/ \E i \in 1..2 : DhAgree(i)

SpecDH == InitDH /\ [][NextDH]_vars

-----------------------------------------------------------------------------
(* Properties *)

\* positions of the log of the last call that hold engine call `call'
Positions(call) == {i \in 1..Len(last.log) : last.log[i].call = call}

\* how often the last call made engine call `call' on handle h
Count(call, h) ==
    Cardinality({i \in Positions(call) : last.log[i].h = h})

\* the scratch handles of the functions
ScratchHandles == {"x", "y", "z", "chk_x", "chk_y"}

\* return values that report a failure of the arithmetic engine
EngineErrors == {MP_INIT_E, MP_READ_E, MP_SUB_E, MP_EXPTMOD_E, MP_TO_E}

\* the peer's (or candidate's) value as an unsigned big-endian integer
PeerValue == mp_read_unsigned_bin(last.a2.bytes)

InRange(v) == 2 <= v /\ v <= key.p.val - 2

IsPrime(n) == n >= 2 /\ \A d \in 2..(n - 1) : n % d # 0

\* C1: in wc_DhAgree the peer value goes through wc_DhCheckPubKey first.
\* When the check does not return 0, wc_DhAgree returns DH_CHECK_PUB_E, its
\* last step is the check (it decodes nothing itself, never calls
\* mp_exptmod) and it writes neither agree nor agreeSz.  Every mp_exptmod
\* with the peer value as base comes after a check of the same bytes against
\* the same modulus that returned 0, so the base lies in [2, p-2].
C1_CheckBeforeExptmod ==
    last.op = "wc_DhAgree" =>
        /\ Positions("wc_DhCheckPubKey") # {}
        /\ last.chk # OK =>
              /\ last.ret = DH_CHECK_PUB_E
              /\ last.log[Len(last.log)].call = "wc_DhCheckPubKey"
              /\ Positions("mp_exptmod") = {}
              /\ Count("mp_read_unsigned_bin", "y") = 0
              /\ Count("mp_read_unsigned_bin", "x") = 0
              /\ last.wrote = {}
              /\ agree = << >> /\ agreeSz = 0
        /\ \A i \in Positions("mp_exptmod") :
              /\ last.chk = OK
              /\ \E j \in Positions("wc_DhCheckPubKey") :
                    j < i /\ last.log[j].arg = last.a2.bytes
              /\ last.log[i].arg = <<PeerValue, key.p.val>>
              /\ InRange(PeerValue)

\* C1 witness: an agreement refused because the peer sent p - 1, and
\* nothing was computed with it
C1_Witness ==
    /\ last.op = "wc_DhAgree"
    /\ key.p.val = 23
    /\ PeerValue = 22
    /\ last.chk = MP_CMP_E
    /\ last.ret = DH_CHECK_PUB_E

\* a call of wc_DhCheckPubKey with a key and a buffer, in which no engine
\* call failed
CheckedWithoutFailure ==
    /\ last.op = "wc_DhCheckPubKey"
    /\ last.keyArg # NULL
    /\ last.a2.ptr # NULL
    /\ last.ret \notin EngineErrors

\* C2 as stated: wc_DhCheckPubKey returns 0 iff 2 <= x' <= p-2, every other
\* candidate is rejected with MP_CMP_E, and 2 and p-2 are accepted whatever
\* the domain parameters.
C2_AsStated ==
    CheckedWithoutFailure =>
        /\ last.ret = OK <=> InRange(PeerValue)
        /\ ~InRange(PeerValue) => last.ret = MP_CMP_E
        /\ PeerValue \in {2, key.p.val - 2} => last.ret = OK

\* C2 as amended: wc_DhCheckPubKey returns 0 iff 2 <= x' <= p-2, every other
\* candidate (0, 1, p-1 and p among them) is rejected with MP_CMP_E, and
\* 2 and p-2 are accepted when p >= 4.
C2_RangeIff ==
    CheckedWithoutFailure =>
        /\ last.ret = OK <=> InRange(PeerValue)
        /\ ~InRange(PeerValue) => last.ret = MP_CMP_E
        /\ PeerValue \in {0, 1, key.p.val - 1, key.p.val}
              => last.ret = MP_CMP_E
        /\ key.p.val >= 4 /\ PeerValue \in {2, key.p.val - 2}
              => last.ret = OK

\* C2 witness: p - 2 is accepted for p = 23
C2_Witness ==
    /\ CheckedWithoutFailure
    /\ key.p.val = 23
    /\ PeerValue = 21
    /\ last.ret = OK

\* both parties of the exchange have derived their public value and agreed
ExchangeDone ==
    \A i \in 1..2 : party[i].pubRet = OK /\ party[i].agreeRet # "none"

\* C3: Diffie-Hellman symmetry.  With A = g^a mod p and B = g^b mod p from
\* GeneratePublic, agree(a, B) and agree(b, A) return the same value and, on
\* success, the same shared-secret bytes.
C3_Symmetry ==
    ExchangeDone =>
        /\ party[1].agreeRet = party[2].agreeRet
        /\ party[1].agreeRet = OK => party[1].agree = party[2].agree

\* C4: a successful GeneratePrivate returns at most as many bytes as the
\* modulus has (at least one, the domain parameters being valid), and the
\* first byte has both bits of 0x0C set, under either sizing policy.
C4_PrivateWithinModulus ==
    /\ last.op = "GeneratePrivate"
    /\ last.ret = OK
    /\ last.pSz >= 1
    => /\ privSz <= last.pSz
       /\ And0C(priv[1]) = 12

\* C5: no partial success.  When wc_DhAgree or wc_DhGenerateKeyPair returns
\* an error, it has written none of its output locations.
C5_NoPartialSuccess ==
    /\ last.op \in {"wc_DhAgree", "wc_DhGenerateKeyPair"}
    /\ last.ret # OK
    => /\ last.wrote = {}
       /\ priv = << >> /\ privSz = 0
       /\ pub = << >> /\ pubSz = 0
       /\ agree = << >> /\ agreeSz = 0

\* C6: the range error is told apart from internal faults.  wc_DhCheckPubKey
\* returns MP_CMP_E, and wc_DhAgree DH_CHECK_PUB_E, only when the peer value
\* is outside [2, p-2], never when an engine call of the check failed.
C6_RangeErrorDistinct ==
    /\ last.op = "wc_DhCheckPubKey" /\ last.ret = MP_CMP_E
          => ~InRange(PeerValue)
    /\ last.op = "wc_DhAgree" /\ last.ret = DH_CHECK_PUB_E
          => /\ last.chk \notin EngineErrors
             /\ last.a2.ptr # NULL => ~InRange(PeerValue)

\* the last call ran one of the functions that use scratch handles
UsesScratch ==
    last.op \in {"wc_DhGenerateKeyPair", "wc_DhCheckPubKey", "wc_DhAgree"}

\* C7: guaranteed cleanup.  On every exit of GeneratePublic, wc_DhCheckPubKey
\* and wc_DhAgree each scratch handle the call initialised is cleared exactly
\* once, after its last use, and none stays live; on every failing exit of
\* wc_DhSetKey (p init, p decode, g init or g decode failure) no handle for
\* p or g stays initialised, p in particular when p decoded and g failed.
C7_Cleanup ==
    /\ UsesScratch =>
          \A h \in ScratchHandles :
              /\ Count("mp_init", h) <= 1
              /\ Count("mp_clear", h) = Count("mp_init", h)
              /\ \A i \in 1..Len(last.log) :
                    last.log[i].h = h /\ last.log[i].call # "mp_clear"
                    => \E j \in Positions("mp_clear") :
                          j > i /\ last.log[j].h = h
    /\ /\ last.op = "wc_DhSetKey"
       /\ last.ret \in {MP_INIT_E, ASN_DH_KEY_E}
       => ~key.p.live /\ ~key.g.live

\* the table of the sizer, as the specification gives it
TabulatedSizes == {128, 256, 384, 512, 640, 768, 896, 1024}
Tabulated(n) ==
    CASE n = 128 -> 21 [] n = 256 -> 29 [] n = 384 -> 34 [] n = 512 -> 39
      [] n = 640 -> 42 [] n = 768 -> 46 [] n = 896 -> 49 [] n = 1024 -> 52

\* n rounded up to a multiple of 128
RoundedUp(n) == 128 * ((n + 127) \div 128)

\* the size GeneratePrivate asked of the random source, if it asked
AskedOfRng(n) ==
    /\ Len(last.log) = 1
    /\ last.log[1] = E("wc_RNG_GenerateBlock", "priv", <<n>>)
    /\ last.ret = OK => privSz = n /\ Len(priv) = n

\* C8: the sizer returns 21, 29, 34, 39, 42, 46, 49, 52 for modulus lengths
\* 128, ..., 1024 under both policies; under WOLFSSL_DH_CONST any other
\* length is rounded up to a multiple of 128 and looked up in the same
\* table, and the call fails with BAD_FUNC_ARG without drawing random bytes
\* when the rounded length is not tabulated.
C8_SizerTable ==
    last.op = "GeneratePrivate" =>
        /\ last.pSz \in TabulatedSizes => AskedOfRng(Tabulated(last.pSz))
        /\ dhConst /\ RoundedUp(last.pSz) \in TabulatedSizes
              => AskedOfRng(Tabulated(RoundedUp(last.pSz)))
        /\ dhConst /\ RoundedUp(last.pSz) \notin TabulatedSizes
              => /\ last.ret = BAD_FUNC_ARG
                 /\ last.log = << >>
                 /\ last.wrote = {}

\* C8 witness: under WOLFSSL_DH_CONST a 129-byte modulus is sized as a
\* 256-byte one
C8_Witness ==
    /\ last.op = "GeneratePrivate"
    /\ dhConst
    /\ last.pSz = 129
    /\ last.ret = OK
    /\ privSz = 29

\* one of the buffers of the last wc_DhSetKey is absent or empty
ParamMissing ==
    \/ last.a1.ptr = NULL \/ last.a2.ptr = NULL
    \/ Len(last.a1.bytes) = 0 \/ Len(last.a2.bytes) = 0

\* the bytes of a buffer less one leading zero byte, if it has one
LessOneZero(b) == IF b[1] = 0 THEN SubSeq(b, 2, Len(b)) ELSE b

\* C9: wc_DhSetKey fails with BAD_FUNC_ARG, touching no parameter storage,
\* when p or g is absent or empty; otherwise it drops exactly one leading
\* zero byte from a buffer that starts with one and decodes the rest, so
\* that the stored p and g are the unsigned big-endian values of the inputs.
C9_SetKey ==
    last.op = "wc_DhSetKey" =>
        /\ ParamMissing =>
              /\ last.ret = BAD_FUNC_ARG
              /\ last.log = << >>
              /\ key = last.key0
        /\ ~ParamMissing /\ last.keyArg # NULL =>
              /\ \A i \in Positions("mp_read_unsigned_bin") :
                    /\ last.log[i].h = "p"
                          => last.log[i].arg = LessOneZero(last.a1.bytes)
                    /\ last.log[i].h = "g"
                          => last.log[i].arg = LessOneZero(last.a2.bytes)
              /\ last.ret = OK =>
                    /\ Count("mp_read_unsigned_bin", "p") = 1
                    /\ Count("mp_read_unsigned_bin", "g") = 1
                    /\ key.p = Live(mp_read_unsigned_bin(last.a1.bytes))
                    /\ key.g = Live(mp_read_unsigned_bin(last.a2.bytes))

\* C9 witness: p given as 00 00 17; one zero byte is dropped, 00 17 is
\* decoded, and 23 is stored, as for 17 alone
C9_Witness ==
    /\ last.op = "wc_DhSetKey"
    /\ last.ret = OK
    /\ last.a1.bytes = <<0, 0, 23>>
    /\ \E i \in Positions("mp_read_unsigned_bin") :
          last.log[i].h = "p" /\ last.log[i].arg = <<0, 23>>
    /\ key.p.val = 23

\* C10: every public value a successful wc_DhGenerateKeyPair returns is
\* accepted by wc_DhCheckPubKey under the same domain parameters, for p
\* prime and p > g >= 2.
C10_GeneratedPublicAccepted ==
    /\ last.op = "wc_DhGenerateKeyPair"
    /\ last.ret = OK
    /\ IsPrime(key.p.val)
    /\ key.p.val > key.g.val
    /\ key.g.val >= 2
    => wc_DhCheckPubKey(key, "key", Buf(SubSeq(pub, 1, pubSz)), "none").ret
           = OK

=============================================================================
